---- MODULE Spec2Model ----
(***************************************************************************)
(* State-machine model of FastAPIDemoCharm (src/src/charm.py).             *)
(*                                                                         *)
(* The charm is a single reactive class: the Juju runtime delivers one     *)
(* notification at a time and the observing handler runs to completion.    *)
(* Each handler is one action of the model.  The environment (the Pebble   *)
(* supervisor's reachability, the database relation data bags, the peer    *)
(* relation) changes through separate actions.                             *)
(***************************************************************************)
EXTENDS Integers, Sequences, FiniteSets, TLC

\* ------------------------------------------------------------------ bounds

\* Largest value of started_counter the model lets the start handler reach.
MaxStarts == 2

\* The number of replicas whose start handlers interleave.
NumReplicas == 3

\* The start notifications the replicas handle between them.
MaxReplicaStarts == 5

\* Largest counter either specification can store.
MaxCounter == IF MaxStarts > MaxReplicaStarts THEN MaxStarts ELSE MaxReplicaStarts

\* --------------------------------------------------------------- constants

PEER_NAME == "fastapi-peer"

pebble_service_name == "fastapi-service"

\* The port _on_config_changed refuses.
ReservedPort == 22

\* The default of the server-port option (the unit test's "default config").
DefaultPort == 8000

\* The values of server-port the model delivers.
Ports == {ReservedPort, 1234, DefaultPort}

\* ------------------------------------------------------------------ status

MaintenanceStatus(msg) == [name |-> "maintenance", message |-> msg]

WaitingStatus(msg) == [name |-> "waiting", message |-> msg]

BlockedStatus(msg) == [name |-> "blocked", message |-> msg]

ActiveStatus == [name |-> "active", message |-> ""]

\* The status of a unit whose charm has not set one yet.
UnknownStatus == [name |-> "unknown", message |-> ""]

\* ------------------------------------------------- database relation data

\* A relation whose remote application has published nothing yet.
EmptyData == [k \in {} |-> <<>>]

\* A data bag: endpoints is the text of the "endpoints" field, cut into the
\* pieces str.split(":") looks at (a ":" piece is a separator).
DataBag(endpoints, username, password) ==
    [endpoints |-> endpoints, username |-> username, password |-> password]

\* The data bags the model lets the database application publish: two
\* single-endpoint bags with different contents, and a bag whose endpoints
\* field lists two endpoints ("h1:5432,h2:5432").
DataBags ==
    { EmptyData,
      DataBag(<<"h1", ":", "5432">>, "u1", "w1"),
      DataBag(<<"h2", ":", "6432">>, "u2", "w2"),
      DataBag(<<"h1", ":", "5432,h2", ":", "5432">>, "u1", "w1") }

\* relations.values(), the data bags in relation-id order: no relation, one
\* relation with each of the bags, and a relation that published nothing
\* followed by one that did.
RelationStates ==
    {<<>>} \cup {<<d>> : d \in DataBags}
           \cup {<<EmptyData, DataBag(<<"h1", ":", "5432">>, "u1", "w1")>>}

RECURSIVE SplitColon(_)
\* endpoints.split(":"): the pieces between the ":" separators.
SplitColon(s) ==
    IF s = <<>> THEN <<"">>
    ELSE LET rest == SplitColon(Tail(s))
         IN  IF Head(s) = ":" THEN <<"">> \o rest
             ELSE <<Head(s) \o Head(rest)>> \o Tail(rest)

RECURSIVE FirstData(_)
\* The loop of fetch_postgres_relation_data: the first bag that is not empty
\* ("if not data: continue"), or EmptyData when there is none.
FirstData(rels) ==
    IF rels = <<>> THEN EmptyData
    ELSE IF DOMAIN Head(rels) = {} THEN FirstData(Tail(rels))
    ELSE Head(rels)

\* fetch_postgres_relation_data ending in "return {}" instead of setting
\* Waiting and raising SystemExit: app_environment's .get(..., None) values.
fetch_postgres_relation_data_returning_empty(rels) ==
    LET data == FirstData(rels) IN
    IF DOMAIN data = {}
    THEN [outcome |-> "ok",
          db |-> [db_host |-> "", db_port |-> "", db_username |-> "",
                  db_password |-> ""]]
    ELSE LET parts == SplitColon(data.endpoints) IN
         IF Len(parts) # 2 THEN [outcome |-> "error", db |-> EmptyData]
         ELSE [outcome |-> "ok",
               db |-> [db_host |-> parts[1], db_port |-> parts[2],
                       db_username |-> data.username,
                       db_password |-> data.password]]

\* fetch_postgres_relation_data: "ok" with the connection info; "exit" when no
\* relation has data (the caller's status becomes Waiting and SystemExit(0) is
\* raised); "error" when "host, port = ...split(':')" does not get exactly two
\* pieces (ValueError).
fetch_postgres_relation_data(rels) ==
    LET data == FirstData(rels) IN
    IF DOMAIN data = {} THEN [outcome |-> "exit", db |-> EmptyData]
    ELSE LET parts == SplitColon(data.endpoints) IN
         IF Len(parts) # 2 THEN [outcome |-> "error", db |-> EmptyData]
         ELSE [outcome |-> "ok",
               db |-> [db_host |-> parts[1], db_port |-> parts[2],
                       db_username |-> data.username,
                       db_password |-> data.password]]

\* app_environment, given the fetched connection info.
app_environment(db) ==
    [DEMO_SERVER_DB_HOST |-> db.db_host,
     DEMO_SERVER_DB_PORT |-> db.db_port,
     DEMO_SERVER_DB_USER |-> db.db_username,
     DEMO_SERVER_DB_PASSWORD |-> db.db_password]

\* ------------------------------------------------------------ pebble layer

\* _pebble_layer's command with the port given as a separate word.
Command_port_word(port) ==
    "uvicorn" \o " " \o "api_demo_server.app:app" \o " " \o "--host=0.0.0.0"
        \o " " \o "--port" \o " " \o ToString(port)

\* " ".join([...]) of _pebble_layer.
Command(port) ==
    "uvicorn" \o " " \o "api_demo_server.app:app" \o " " \o "--host=0.0.0.0"
        \o " " \o "--port=" \o ToString(port)

\* The "services" entry of _pebble_layer.
_pebble_layer(port, db) ==
    [n \in {pebble_service_name} |->
        [override |-> "replace",
         summary |-> "fastapi demo",
         command |-> Command(port),
         startup |-> "enabled",
         environment |-> app_environment(db)]]

\* The services of a plan no layer was added to.
NoServices == [n \in {} |-> <<>>]

\* container.add_layer(..., combine=True): a service with override "replace"
\* replaces the plan's service of that name.
add_layer(services, layer) ==
    [n \in DOMAIN services \cup DOMAIN layer |->
        IF n \in DOMAIN layer THEN layer[n] ELSE services[n]]

\* ------------------------------------------------------------- peer data

\* json.dumps({"started_counter": n}).
JsonDumps(n) == "{\"started_counter\": " \o ToString(n) \o "}"

\* json.loads(data)["started_counter"] for a text json.dumps wrote.
JsonLoads(data) == CHOOSE n \in 0..(MaxCounter + 1) : JsonDumps(n) = data

\* The peer data bag before anything was stored in it.
NoPeerData == [k \in {} |-> ""]

\* get_peer_data(key).get("started_counter", 0): 0 without a peer relation
\* ("if not self.peers: return {}") and for a key that is absent or empty.
StartedCounter(hasPeers, bag) ==
    IF ~hasPeers THEN 0
    ELSE LET data == IF "unit_stats" \in DOMAIN bag THEN bag["unit_stats"] ELSE ""
         IN  IF data = "" THEN 0 ELSE JsonLoads(data)

\* set_peer_data storing under the relation's name instead of the key.
set_peer_data_under_relation_name(bag, key, n) ==
    [k \in DOMAIN bag \cup {PEER_NAME} |-> IF k = PEER_NAME THEN JsonDumps(n) ELSE bag[k]]

\* set_peer_data's assignment self.peers.data[self.app][key] = json.dumps(data).
set_peer_data(bag, key, n) ==
    [k \in DOMAIN bag \cup {key} |-> IF k = key THEN JsonDumps(n) ELSE bag[k]]

\* ------------------------------------------------------------------ state

VARIABLES
    config,           \* self.config["server-port"]
    canConnect,       \* container.can_connect(): the supervisor is reachable
    relations,        \* database.fetch_relation_data().values()
    plan,             \* container.get_plan().to_dict().get("services", {})
    running,          \* the managed process was started by container.restart
    openedPorts,      \* unit.opened_ports()
    status,           \* unit.status
    workloadVersion,  \* the version given to unit.set_workload_version
    peers,            \* model.get_relation(PEER_NAME) is not None
    peerData,         \* peers.data[app]
    last              \* the notification processed last, and what its handler did

\* The replicas of the application that share the peer data bag, for the
\* specification in which their start handlers interleave.
VARIABLES
    pc,               \* per replica: "idle", or "read" between the two lines of _count
    seen,             \* per replica: the counter its _count read
    handled           \* the start notifications the replicas handled

replicaVars == <<pc, seen, handled>>

Replicas == 1..NumReplicas

vars == <<config, canConnect, relations, plan, running, openedPorts, status,
          workloadVersion, peers, peerData, last, pc, seen, handled>>

\* The results document of an event that set none.
NoResults == [k \in {} |-> ""]

\* ------------------------------------------------------ the version lookup

\* What GET /version may give: the workload's version, or no answer (a
\* refused connection, a timeout, a malformed body).
VersionReplies == {"1.0.0", "timeout"}

\* No GET /version was sent.
NotAsked == "none"

\* version without its try/except: what the failed request left is reported.
_request_version_uncaught(reply) == reply

\* _request_version under the try/except of version: "" when it raised.
_request_version(reply) == IF reply = "timeout" THEN "" ELSE reply

\* The replies a run of _update_layer_and_restart may get: it asks for the
\* version only on the path that applied or kept the layer.
RepliesFor(reachable, rels) ==
    IF reachable /\ fetch_postgres_relation_data(rels).outcome = "ok"
    THEN VersionReplies
    ELSE {NotAsked}

\* The version property.
version(reachable, services, reply) ==
    IF reachable /\ pebble_service_name \in DOMAIN services
    THEN _request_version(reply)
    ELSE ""

\* --------------------------------------------------------- reconciliation

\* What a handler's run leaves of the supervisor, the status and the version.
Outcome(st, services, isRunning, reported, outcome, addedLayer, restarts) ==
    [status |-> st, plan |-> services, running |-> isRunning,
     workloadVersion |-> reported, outcome |-> outcome,
     addedLayer |-> addedLayer, restarts |-> restarts]

\* _update_layer_and_restart comparing the commands only.
LayerDiffers_command_only(services, new) ==
    \/ DOMAIN services # DOMAIN new
    \/ \E n \in DOMAIN new : services[n].command # new[n].command

\* _update_layer_and_restart adding the layer and restarting without the
\* comparison.
LayerDiffers_always(services, new) == TRUE

\* "if services != new_layer['services']": the plan has to be replaced.
LayerDiffers(services, new) == services # new

\* _update_layer_and_restart with the supervisor reachable and the connection
\* info fetched: add the layer and restart on a difference, then report the
\* version and Active.
ApplyLayer(port, db, services, isRunning, reply) ==
    LET new     == _pebble_layer(port, db)
        differs == LayerDiffers(services, new)
        applied == IF differs THEN add_layer(services, new) ELSE services
    IN  Outcome(ActiveStatus, applied, isRunning \/ differs,
                version(TRUE, applied, reply), "ok", differs,
                IF differs THEN 1 ELSE 0)

\* _update_layer_and_restart without the can_connect() test.
_update_layer_and_restart_unprobed(port, reachable, rels, services, isRunning, reported, reply) ==
    LET fetched == fetch_postgres_relation_data(rels) IN
    IF fetched.outcome = "exit"
    THEN Outcome(WaitingStatus("Waiting for database relation"),
                 services, isRunning, reported, "exit", FALSE, 0)
    ELSE IF fetched.outcome = "error"
    THEN Outcome(MaintenanceStatus("Assembling pod spec"),
                 services, isRunning, reported, "error", FALSE, 0)
    ELSE ApplyLayer(port, fetched.db, services, isRunning, reply)

\* _update_layer_and_restart.
_update_layer_and_restart(port, reachable, rels, services, isRunning, reported, reply) ==
    LET fetched == fetch_postgres_relation_data(rels) IN
    IF ~reachable
    THEN Outcome(WaitingStatus("Waiting for Pebble in workload container"),
                 services, isRunning, reported, "ok", FALSE, 0)
    ELSE IF fetched.outcome = "exit"
    THEN Outcome(WaitingStatus("Waiting for database relation"),
                 services, isRunning, reported, "exit", FALSE, 0)
    ELSE IF fetched.outcome = "error"
    THEN Outcome(MaintenanceStatus("Assembling pod spec"),
                 services, isRunning, reported, "error", FALSE, 0)
    ELSE ApplyLayer(port, fetched.db, services, isRunning, reply)

\* _on_config_changed comparing the port with the text "22": never equal.
IsReserved_never(port) == FALSE

\* "if int(port) == 22" of _on_config_changed.
IsReserved(port) == port = ReservedPort

\* _handle_ports calling open_port(): the ports opened before stay open.
_handle_ports_open_port(port) == openedPorts \cup {port}

\* _handle_ports calling set_ports() with no port.
_handle_ports_none(port) == {}

\* unit.set_ports(port) of _handle_ports: exactly the given port stays open.
_handle_ports(port) == {port}

\* ----------------------------------------------------------------- history

\* The names of the state components a step changes.
Changed ==
    {n \in {"plan", "running", "openedPorts", "status", "workloadVersion",
            "peerData"} :
        \/ n = "plan" /\ plan' # plan
        \/ n = "running" /\ running' # running
        \/ n = "openedPorts" /\ openedPorts' # openedPorts
        \/ n = "status" /\ status' # status
        \/ n = "workloadVersion" /\ workloadVersion' # workloadVersion
        \/ n = "peerData" /\ peerData' # peerData}

\* The notifications whose handler runs _update_layer_and_restart.
ReconcileKinds == {"pebble-ready", "config-changed", "database-created"}

\* The run recorded in l, with server-port = port, got to
\* _update_layer_and_restart (config-changed returns before it for port 22).
Reconciled(l, port) ==
    l.kind \in ReconcileKinds /\ ~(l.kind = "config-changed" /\ IsReserved(port))

\* What a run keeps of the run right before it: whether that one was a
\* reconciliation in the same environment and for the same port, and the
\* restarts it made.
Prior ==
    IF Reconciled(last, config) /\ config' = config
    THEN [reconciled |-> TRUE, restarts |-> last.restarts]
    ELSE [reconciled |-> FALSE, restarts |-> 0]

\* What is recorded of the handler that ran last, for as long as the
\* environment stays as that handler saw it: the notification (kind, and the
\* action's show-password), the counter _count read, how the handler ended
\* ("ok": returned; "exit": SystemExit raised; "error": another exception
\* raised), the calls it made on the supervisor (addedLayer, restarts), the
\* reply to its GET /version, the event's results document, the state
\* components it changed and the run before it (prior).
Ran(kind, showPassword, reply, outcome, addedLayer, restarts, results) ==
    [kind |-> kind, showPassword |-> showPassword, reply |-> reply,
     counter |-> IF kind = "start" THEN StartedCounter(peers, peerData) ELSE 0,
     outcome |-> outcome, addedLayer |-> addedLayer, restarts |-> restarts,
     results |-> results, changed |-> Changed, prior |-> Prior]

\* No handler ran since the environment changed.
NoRun ==
    [kind |-> "none", showPassword |-> FALSE, reply |-> NotAsked,
     counter |-> 0, outcome |-> "ok",
     addedLayer |-> FALSE, restarts |-> 0, results |-> NoResults,
     changed |-> {}, prior |-> [reconciled |-> FALSE, restarts |-> 0]]

Init ==
    /\ config = DefaultPort
    /\ canConnect = FALSE
    /\ relations = <<>>
    /\ plan = NoServices
    /\ running = FALSE
    /\ openedPorts = {}
    /\ status = UnknownStatus
    /\ workloadVersion = ""
    /\ peers = FALSE
    /\ peerData = NoPeerData
    /\ last = NoRun
    /\ pc = [r \in Replicas |-> "idle"]
    /\ seen = [r \in Replicas |-> 0]
    /\ handled = 0

\* ------------------------------------------------------------ environment

\* The supervisor in the workload container comes up or goes away.
SupervisorChanges ==
    /\ canConnect' = ~canConnect
    /\ UNCHANGED replicaVars
    /\ last' = NoRun
    /\ UNCHANGED <<config, relations, plan, running, openedPorts, status,
                   workloadVersion, peers, peerData>>

\* The database relations, or the data their remote side published, change.
RelationDataChanges ==
    /\ \E rels \in RelationStates : rels # relations /\ relations' = rels
    /\ UNCHANGED replicaVars
    /\ last' = NoRun
    /\ UNCHANGED <<config, canConnect, plan, running, openedPorts, status,
                   workloadVersion, peers, peerData>>

\* The peer relation is established.
PeerRelationCreated ==
    /\ ~peers
    /\ peers' = TRUE
    /\ UNCHANGED replicaVars
    /\ last' = NoRun
    /\ UNCHANGED <<config, canConnect, relations, plan, running, openedPorts,
                   status, workloadVersion, peerData>>

\* --------------------------------------------------------------- handlers

\* A notification whose handler is _update_layer_and_restart, directly or
\* through _on_config_changed / _on_database_created.
Reconcile(kind, reply) ==
    LET r == _update_layer_and_restart(config', canConnect, relations, plan,
                                   running, workloadVersion, reply)
    IN  /\ status' = r.status
        /\ plan' = r.plan
        /\ running' = r.running
        /\ workloadVersion' = r.workloadVersion
        /\ UNCHANGED <<canConnect, relations, peers, peerData>>
        /\ UNCHANGED replicaVars
        /\ last' = Ran(kind, FALSE, reply, r.outcome, r.addedLayer, r.restarts, NoResults)

\* demo_server_pebble_ready -> _update_layer_and_restart.
OnPebbleReady ==
    \E reply \in RepliesFor(canConnect, relations) :
        /\ UNCHANGED <<config, openedPorts>>
        /\ Reconcile("pebble-ready", reply)

\* config_changed -> _on_config_changed, with server-port set to port.
_on_config_changed(port) ==
    /\ config' = port
    /\ IF IsReserved(port)
       THEN /\ status' = BlockedStatus("Invalid port number, 22 is reserved for SSH")
            /\ UNCHANGED <<canConnect, relations, plan, running, openedPorts,
                           workloadVersion, peers, peerData>>
            /\ UNCHANGED replicaVars
            /\ last' = Ran("config-changed", FALSE, NotAsked, "ok", FALSE, 0, NoResults)
       ELSE /\ openedPorts' = _handle_ports(port)
            /\ \E reply \in RepliesFor(canConnect, relations) : Reconcile("config-changed", reply)

\* database.on.database_created -> _on_database_created.
_on_database_created ==
    \E reply \in RepliesFor(canConnect, relations) :
        /\ UNCHANGED <<config, openedPorts>>
        /\ Reconcile("database-created", reply)

\* database.on.endpoints_changed -> _on_database_created.
OnEndpointsChanged ==
    \E reply \in RepliesFor(canConnect, relations) :
        /\ UNCHANGED <<config, openedPorts>>
        /\ Reconcile("database-created", reply)

\* database_relation_broken -> _on_database_relation_removed.
_on_database_relation_removed ==
    /\ status' = WaitingStatus("Waiting for database relation")
    /\ UNCHANGED <<config, canConnect, relations, plan, running, openedPorts,
                   workloadVersion, peers, peerData>>
    /\ UNCHANGED replicaVars
    /\ last' = Ran("relation-broken", FALSE, NotAsked, "exit", FALSE, 0, NoResults)

\* start -> _count.  Without a peer relation set_peer_data raises
\* (self.peers is None) after get_peer_data returned {}.
_count ==
    LET counter == StartedCounter(peers, peerData) IN
    /\ counter < MaxStarts
    /\ IF peers
       THEN peerData' = set_peer_data(peerData, "unit_stats", counter + 1)
       ELSE UNCHANGED peerData
    /\ UNCHANGED <<config, canConnect, relations, plan, running, openedPorts,
                   status, workloadVersion, peers>>
    /\ UNCHANGED replicaVars
    /\ last' = Ran("start", FALSE, NotAsked,
                   IF peers THEN "ok" ELSE "error", FALSE, 0,
                   NoResults)

\* get-db-info giving the credentials whatever show-password says.
DbInfoOutput_credentials_always(db, showPassword) ==
    [k \in {"db-host", "db-port", "db-username", "db-password"} |->
        CASE k = "db-host" -> db.db_host
          [] k = "db-port" -> db.db_port
          [] k = "db-username" -> db.db_username
          [] k = "db-password" -> db.db_password]

\* The results of get-db-info for fetched connection info.
DbInfoOutput(db, showPassword) ==
    LET keys == {"db-host", "db-port"}
                \cup (IF showPassword THEN {"db-username", "db-password"} ELSE {})
    IN  [k \in keys |->
            CASE k = "db-host" -> db.db_host
              [] k = "db-port" -> db.db_port
              [] k = "db-username" -> db.db_username
              [] k = "db-password" -> db.db_password]

\* The no-database result spelt in lower case.
NoDatabaseOutput_lower_case == [k \in {"result"} |-> "no database connected"]

\* The results of get-db-info when the fetch raised SystemExit.
NoDatabaseOutput == [k \in {"result"} |-> "No database connected"]

\* _on_get_db_info_action over a fetch that sets no status.
_on_get_db_info_action_no_status(showPassword) ==
    LET fetched == fetch_postgres_relation_data(relations) IN
    /\ UNCHANGED <<config, canConnect, relations, plan, running, openedPorts,
                   status, workloadVersion, peers, peerData>>
    /\ UNCHANGED replicaVars
    /\ last' = Ran("get-db-info", showPassword, NotAsked, fetched.outcome, FALSE, 0,
                   CASE fetched.outcome = "ok" -> DbInfoOutput(fetched.db, showPassword)
                     [] fetched.outcome = "exit" -> NoDatabaseOutput
                     [] OTHER -> NoResults)

\* get_db_info_action -> _on_get_db_info_action.  When the fetch raises
\* ValueError, output is unbound in the finally clause and no result is set.
_on_get_db_info_action(showPassword) ==
    LET fetched == fetch_postgres_relation_data(relations) IN
    /\ status' = IF fetched.outcome = "exit"
                 THEN WaitingStatus("Waiting for database relation")
                 ELSE status
    /\ UNCHANGED <<config, canConnect, relations, plan, running, openedPorts,
                   workloadVersion, peers, peerData>>
    /\ UNCHANGED replicaVars
    /\ last' = Ran("get-db-info", showPassword, NotAsked, fetched.outcome, FALSE, 0,
                   CASE fetched.outcome = "ok" -> DbInfoOutput(fetched.db, showPassword)
                     [] fetched.outcome = "exit" -> NoDatabaseOutput
                     [] OTHER -> NoResults)

Next ==
    \/ SupervisorChanges
    \/ RelationDataChanges
    \/ PeerRelationCreated
    \/ OnPebbleReady
    \/ \E port \in Ports : _on_config_changed(port)
    \/ _on_database_created
    \/ OnEndpointsChanged
    \/ _on_database_relation_removed
    \/ _count
    \/ \E showPassword \in BOOLEAN : _on_get_db_info_action(showPassword)

Spec == Init /\ [][Next]_vars

\* ---------------------------------------------------- interleaved replicas

\* The starts begun by the replicas: those handled and those between the read
\* and the write.
Begun == handled + Cardinality({r \in Replicas : pc[r] = "read"})

\* Line 208-209 of _count on replica r: get_peer_data and the counter in it.
CountRead(r) ==
    /\ peers
    /\ pc[r] = "idle"
    /\ Begun < MaxReplicaStarts
    /\ pc' = [pc EXCEPT ![r] = "read"]
    /\ seen' = [seen EXCEPT ![r] = StartedCounter(peers, peerData)]
    /\ UNCHANGED <<config, canConnect, relations, plan, running, openedPorts,
                   status, workloadVersion, peers, peerData, last, handled>>

\* Line 210 of _count on replica r: set_peer_data with the counter read plus
\* one; the write replaces whatever the bag holds.
CountWrite(r) ==
    /\ pc[r] = "read"
    /\ peerData' = set_peer_data(peerData, "unit_stats", seen[r] + 1)
    /\ pc' = [pc EXCEPT ![r] = "idle"]
    /\ seen' = [seen EXCEPT ![r] = 0]
    /\ handled' = handled + 1
    /\ UNCHANGED <<config, canConnect, relations, plan, running, openedPorts,
                   status, workloadVersion, peers, last>>

NextReplicas ==
    \/ PeerRelationCreated
    \/ \E r \in Replicas : CountRead(r)
    \/ \E r \in Replicas : CountWrite(r)

\* The start handlers of the replicas, each a read and a later write of the
\* shared peer data bag, in any interleaving.
SpecReplicas == Init /\ [][NextReplicas]_vars

\* ------------------------------------------------------------------ claims

\* The first published data bag names one endpoint, host:port.
SingleEndpoint ==
    LET data == FirstData(relations) IN
    /\ DOMAIN data # {}
    /\ Len(data.endpoints) = 3
    /\ data.endpoints[2] = ":"

\* No relation published data.
NoRelationData == \A i \in DOMAIN relations : DOMAIN relations[i] = {}

\* The handler that ran last neither added a layer, nor restarted the process,
\* nor changed the plan, the opened ports or the reported version.
NoMutation ==
    /\ ~last.addedLayer
    /\ last.restarts = 0
    /\ last.changed \cap {"plan", "running", "openedPorts", "workloadVersion"} = {}

\* C1 as stated: after config-changed with a port p other than 22, from any
\* state, the status is Active and p is in the opened-port set.
C1_ActiveFromAnyState ==
    (last.kind = "config-changed" /\ config # 22)
        => (status = ActiveStatus /\ config \in openedPorts)

\* C1 amended: after config-changed with a port p other than 22, p is in the
\* opened-port set; the status is Active when the supervisor is reachable and
\* a relation published a single host:port endpoint, Waiting when the
\* supervisor is unreachable or no relation published data, and never Active
\* otherwise.
C1_PortOpenedActiveWhenReconciled ==
    (last.kind = "config-changed" /\ config # 22)
        => /\ config \in openedPorts
           /\ (canConnect /\ SingleEndpoint) => status = ActiveStatus
           /\ ~canConnect
                => status = WaitingStatus("Waiting for Pebble in workload container")
           /\ (canConnect /\ NoRelationData)
                => status = WaitingStatus("Waiting for database relation")
           /\ ~(canConnect /\ SingleEndpoint) => status # ActiveStatus

\* Witness of C1: config-changed with port 1234 ended Active with 1234 opened.
C1_Witness ==
    /\ last.kind = "config-changed"
    /\ config = 1234
    /\ status = ActiveStatus
    /\ openedPorts = {1234}

\* C2: config-changed with port 22 ends Blocked with the message "Invalid port
\* number, 22 is reserved for SSH", 22 is not opened, and the plan, the
\* restart count, the opened ports and the reported version are as before.
C2_ReservedPortBlocked ==
    (last.kind = "config-changed" /\ config = 22)
        => /\ status = [name |-> "blocked",
                        message |-> "Invalid port number, 22 is reserved for SSH"]
           /\ 22 \notin openedPorts
           /\ NoMutation
           /\ last.outcome = "ok"

\* Witness of C2: port 22 was refused on a unit that had a plan and an opened
\* port to keep.
C2_Witness ==
    /\ last.kind = "config-changed"
    /\ config = 22
    /\ status.name = "blocked"
    /\ plan # NoServices
    /\ openedPorts # {}

\* C3 as stated: in every reachable state the applied command is not the one
\* for port 22 and 22 is not in the opened-port set.
C3_Port22NeverApplied ==
    /\ pebble_service_name \in DOMAIN plan
        => plan[pebble_service_name].command
               # "uvicorn api_demo_server.app:app --host=0.0.0.0 --port=22"
    /\ 22 \notin openedPorts

\* C4 as stated: of two reconciliations in a row for the same port and the
\* same relation data with the supervisor reachable, the two together restart
\* the process exactly once, and the second adds no layer and restarts nothing.
C4_ExactlyOneRestart ==
    (Reconciled(last, config) /\ last.prior.reconciled /\ canConnect)
        => /\ last.prior.restarts + last.restarts = 1
           /\ ~last.addedLayer
           /\ last.restarts = 0

\* C4 amended: of two reconciliations in a row for the same port and the same
\* relation data with the supervisor reachable, the second adds no layer,
\* restarts nothing and leaves the plan as it is, and the two together restart
\* the process at most once (not at all when the first found its definition
\* applied already, or stopped for want of connection info).
C4_SecondReconcileIdle ==
    (Reconciled(last, config) /\ last.prior.reconciled /\ canConnect)
        => /\ last.prior.restarts + last.restarts <= 1
           /\ ~last.addedLayer
           /\ last.restarts = 0
           /\ "plan" \notin last.changed

\* Witness of C4: a reconciliation that restarted the process was followed by
\* a second one that ended Active.
C4_Witness ==
    /\ Reconciled(last, config)
    /\ last.prior.reconciled
    /\ last.prior.restarts = 1
    /\ canConnect
    /\ status = ActiveStatus

\* C5 as stated: without relation data get-db-info sets exactly
\* {"result": "no database connected"} and the abort is propagated.
C5_LowerCaseResult ==
    (last.kind = "get-db-info" /\ NoRelationData)
        => /\ last.results = [k \in {"result"} |-> "no database connected"]
           /\ last.outcome = "exit"

\* C5 amended: without relation data get-db-info sets exactly
\* {"result": "No database connected"} (capital N), for show-password true and
\* false, and SystemExit is still raised after the result is set.
C5_NoDatabaseResult ==
    (last.kind = "get-db-info" /\ NoRelationData)
        => /\ last.results = [k \in {"result"} |-> "No database connected"]
           /\ last.outcome = "exit"

\* Witness of C5: get-db-info with show-password true ran while the only
\* relation had published nothing.
C5_Witness ==
    /\ last.kind = "get-db-info"
    /\ last.showPassword
    /\ relations = <<EmptyData>>
    /\ DOMAIN last.results = {"result"}

\* C6: with relation data host H, port P, username U, password W, get-db-info
\* returns exactly db-host = H and db-port = P without show-password, and
\* exactly db-host, db-port, db-username = U and db-password = W with it.
C6_DbInfoResults ==
    (last.kind = "get-db-info" /\ SingleEndpoint)
        => LET data == FirstData(relations) IN
           /\ last.outcome = "ok"
           /\ DOMAIN last.results =
                  IF last.showPassword
                  THEN {"db-host", "db-port", "db-username", "db-password"}
                  ELSE {"db-host", "db-port"}
           /\ last.results["db-host"] = data.endpoints[1]
           /\ last.results["db-port"] = data.endpoints[3]
           /\ last.showPassword
                => /\ last.results["db-username"] = data.username
                   /\ last.results["db-password"] = data.password

\* Witness of C6: get-db-info without show-password returned host and port of
\* the relation published after an empty one.
C6_Witness ==
    /\ last.kind = "get-db-info"
    /\ ~last.showPassword
    /\ Len(relations) = 2
    /\ last.results = [k \in {"db-host", "db-port"} |->
                          IF k = "db-host" THEN "h1" ELSE "5432"]

\* C7 as stated: after pebble-ready with port 8000, the supervisor reachable
\* and no database relation, the plan has the command for port 8000, the four
\* DEMO_SERVER_DB_* values are empty, the service runs and the status is Active.
C7_ActiveWithoutDatabase ==
    (last.kind = "pebble-ready" /\ config = 8000 /\ canConnect /\ relations = <<>>)
        => /\ pebble_service_name \in DOMAIN plan
           /\ plan[pebble_service_name].command
                  = "uvicorn api_demo_server.app:app --host=0.0.0.0 --port=8000"
           /\ \A k \in DOMAIN plan[pebble_service_name].environment :
                  plan[pebble_service_name].environment[k] = ""
           /\ running
           /\ status = ActiveStatus

\* C7 amended: after pebble-ready with port 8000 and the supervisor reachable,
\* when a relation published host H, port P, username U and password W the
\* plan has the command for port 8000 and the DEMO_SERVER_DB_* values H, P, U
\* and W, the service runs and the status is Active; when no relation
\* published data nothing is applied, the status is Waiting ("Waiting for
\* database relation") and the handler ends by SystemExit.
C7_PebbleReadyDefaultPort ==
    (last.kind = "pebble-ready" /\ config = 8000 /\ canConnect)
        => /\ SingleEndpoint
                => LET data == FirstData(relations) IN
                   /\ DOMAIN plan = {"fastapi-service"}
                   /\ plan["fastapi-service"].command
                          = "uvicorn api_demo_server.app:app --host=0.0.0.0 --port=8000"
                   /\ plan["fastapi-service"].environment
                          = [DEMO_SERVER_DB_HOST |-> data.endpoints[1],
                             DEMO_SERVER_DB_PORT |-> data.endpoints[3],
                             DEMO_SERVER_DB_USER |-> data.username,
                             DEMO_SERVER_DB_PASSWORD |-> data.password]
                   /\ running
                   /\ status = ActiveStatus
           /\ NoRelationData
                => /\ NoMutation
                   /\ status = WaitingStatus("Waiting for database relation")
                   /\ last.outcome = "exit"

\* Witness of C7: pebble-ready with port 8000 added the layer and ended Active.
C7_Witness ==
    /\ last.kind = "pebble-ready"
    /\ config = 8000
    /\ canConnect
    /\ last.addedLayer
    /\ status = ActiveStatus

\* C8 as stated: every start stores {started_counter: N + 1}, N being the
\* stored counter, or 0 when the key or the peer relation is absent, and
\* changes nothing else.
C8_StartIncrements ==
    last.kind = "start"
        => /\ "unit_stats" \in DOMAIN peerData
           /\ peerData["unit_stats"]
                  = "{\"started_counter\": " \o ToString(last.counter + 1) \o "}"
           /\ last.changed = {"peerData"}

\* C9 as stated: pebble-ready, config-changed or a database notification with
\* the supervisor unreachable ends Waiting, and the plan, the restart count,
\* the opened ports and the reported version are as before.
C9_UnreachableNoMutation ==
    (last.kind \in ReconcileKinds /\ ~canConnect)
        => /\ status.name = "waiting"
           /\ NoMutation

\* C9 amended: with the supervisor unreachable, pebble-ready and the database
\* notifications end Waiting with the plan, the restart count, the opened
\* ports and the reported version as before; config-changed with a port p
\* other than 22 ends Waiting too, with the plan, the restart count and the
\* version as before, but has set the opened ports to {p}; config-changed with
\* port 22 ends Blocked.
C9_UnreachableWaiting ==
    (last.kind \in ReconcileKinds /\ ~canConnect)
        => IF Reconciled(last, config)
           THEN /\ status = WaitingStatus("Waiting for Pebble in workload container")
                /\ last.outcome = "ok"
                /\ ~last.addedLayer
                /\ last.restarts = 0
                /\ last.changed \cap {"plan", "running", "workloadVersion"} = {}
                /\ IF last.kind = "config-changed"
                   THEN openedPorts = {config}
                   ELSE "openedPorts" \notin last.changed
           ELSE status.name = "blocked"

\* Witness of C9: config-changed with the supervisor unreachable ended Waiting
\* and changed the opened ports.
C9_Witness ==
    /\ last.kind = "config-changed"
    /\ ~canConnect
    /\ status.name = "waiting"
    /\ "openedPorts" \in last.changed

\* C10: a reconciliation with the supervisor reachable and no relation data,
\* and the relation-broken handler, set the status Waiting and end by
\* SystemExit without adding a layer, restarting the process or setting Active.
C10_NoDatabaseHalts ==
    (\/ Reconciled(last, config) /\ canConnect /\ NoRelationData
     \/ last.kind = "relation-broken")
        => /\ status = WaitingStatus("Waiting for database relation")
           /\ last.outcome = "exit"
           /\ ~last.addedLayer
           /\ last.restarts = 0
           /\ "plan" \notin last.changed

\* Witness of C10: database-created ran with the supervisor reachable after
\* the relation data was withdrawn from a unit that had a plan.
C10_Witness ==
    /\ last.kind = "database-created"
    /\ canConnect
    /\ NoRelationData
    /\ plan # NoServices
    /\ status.name = "waiting"

\* The service definition _pebble_layer builds for the configured port and the
\* connection info of the published relation data.
Desired == _pebble_layer(config, fetch_postgres_relation_data(relations).db)

\* C11: a reconciliation with the supervisor reachable and connection info
\* available whose GET /version fails or times out does not abort, reports the
\* empty string as workload version, ends Active and has the desired service
\* definition applied.
C11_VersionFailureNotFatal ==
    (Reconciled(last, config) /\ canConnect /\ SingleEndpoint
        /\ last.reply = "timeout")
        => /\ last.outcome = "ok"
           /\ workloadVersion = ""
           /\ status = ActiveStatus
           /\ plan = Desired
           /\ running

\* Witness of C11: a reconciliation added the layer, got no answer to GET
\* /version, and replaced a version reported earlier by the empty string.
C11_Witness ==
    /\ Reconciled(last, config)
    /\ canConnect
    /\ last.reply = "timeout"
    /\ last.addedLayer
    /\ "workloadVersion" \in last.changed
    /\ status = ActiveStatus

\* C12: a reconciliation with the supervisor reachable and connection info
\* available adds the layer and restarts the process if and only if the
\* desired service definition differs from the plan's services as they were
\* before it (it leaves the plan equal to the desired definition, so the plan
\* differed before exactly when the run changed it); a reconciliation that
\* ends Active leaves the plan's services equal to the desired definition for
\* the configured port and the published connection info.
C12_ApplyIffDiffers ==
    /\ (Reconciled(last, config) /\ canConnect /\ SingleEndpoint)
         => /\ plan = Desired
            /\ last.addedLayer <=> ("plan" \in last.changed)
            /\ last.restarts = (IF "plan" \in last.changed THEN 1 ELSE 0)
    /\ (Reconciled(last, config) /\ status = ActiveStatus)
         => (canConnect /\ SingleEndpoint /\ plan = Desired)

\* Witness of C12: a database notification replaced an applied definition by
\* the one for the connection info published since.
C12_Witness ==
    /\ last.kind = "database-created"
    /\ last.addedLayer
    /\ last.restarts = 1
    /\ ~("running" \in last.changed)
    /\ plan["fastapi-service"].environment.DEMO_SERVER_DB_HOST = "h2"
    /\ status = ActiveStatus

\* C13 as stated: with the replicas' reads and writes interleaved in any way,
\* once k start notifications are handled the shared started_counter is k.
C13_EveryStartCounted ==
    (\A r \in Replicas : pc[r] = "idle")
        => StartedCounter(peers, peerData) = handled

\* C13: with the replicas' reads and writes interleaved in any way, the shared
\* started_counter is at most the number of start notifications handled and at
\* least 1 once one is handled; a replica between its read and its write holds
\* a value no larger than the number handled, which its write stores plus one
\* whatever the bag holds by then.
C13_CounterAtMostStarts ==
    /\ StartedCounter(peers, peerData) <= handled
    /\ handled >= 1 => StartedCounter(peers, peerData) >= 1
    /\ \A r \in Replicas : pc[r] = "read" => seen[r] <= handled
    /\ \A r \in Replicas : pc[r] = "idle" => seen[r] = 0

\* Witness of C13: three starts are handled, one of them lost to an
\* overlapping write, and a replica is about to write a value smaller than
\* the stored one.
C13_Witness ==
    /\ handled = 3
    /\ StartedCounter(peers, peerData) = 2
    /\ \E r \in Replicas : pc[r] = "read" /\ seen[r] + 1 < StartedCounter(peers, peerData)

\* C14: the opened-port set is empty or the singleton of the port of the most
\* recent config-changed whose port was not 22: it never holds 22 or two
\* ports, a config-changed with a port p other than 22 leaves it {p} (closing
\* the port opened before), and no other handler run, a config-changed with
\* port 22 included, changes it.
C14_OpenedPortIsLastAccepted ==
    /\ Cardinality(openedPorts) <= 1
    /\ 22 \notin openedPorts
    /\ IF last.kind = "config-changed" /\ config # 22
       THEN openedPorts = {config}
       ELSE "openedPorts" \notin last.changed

\* Witness of C14: a config-changed with port 22 was refused and the port 1234
\* opened by an earlier config-changed is still the one open.
C14_Witness ==
    /\ last.kind = "config-changed"
    /\ config = 22
    /\ openedPorts = {1234}

\* C15 as stated: at the end of every handler run the status is not
\* Maintenance, a reconciliation ends Active or Waiting, and only
\* config-changed with port 22 ends Blocked having set it.
C15_MaintenanceTransient ==
    /\ last.kind # "none" => status.name # "maintenance"
    /\ Reconciled(last, config) => status.name \in {"active", "waiting"}
    /\ (last.kind # "none" /\ status.name = "blocked" /\ "status" \in last.changed)
         => (last.kind = "config-changed" /\ config = 22)

\* C16: get-db-info changes neither the plan, the restart count, the opened
\* ports, the reported version nor the peer counter; without relation data it
\* leaves the status Waiting ("Waiting for database relation"), and otherwise
\* it leaves the status as it was.
C16_DbInfoFrame ==
    last.kind = "get-db-info"
        => /\ NoMutation
           /\ "peerData" \notin last.changed
           /\ IF NoRelationData
              THEN status = WaitingStatus("Waiting for database relation")
              ELSE "status" \notin last.changed

\* Witness of C16: get-db-info ran without relation data on a unit that had
\* applied a plan and opened a port, and changed the status to Waiting.
C16_Witness ==
    /\ last.kind = "get-db-info"
    /\ NoRelationData
    /\ "status" \in last.changed
    /\ status.name = "waiting"
    /\ plan # NoServices
    /\ openedPorts # {}

====
